---- MODULE Spec2Model ----
(***************************************************************************)
(* Model of src/main.rs: resolution of a channel URL to a channel id, the  *)
(* uploads playlist lookup, the paginated enumeration of video ids and the *)
(* concurrent download of one thumbnail per video id.                      *)
(*                                                                         *)
(* Strings are modelled as sequences of symbols; Option<T> is modelled as  *)
(* a sequence of length 0 (None) or 1 (Some).                              *)
(***************************************************************************)
EXTENDS Integers, Sequences, FiniteSets, TLC

\* ------------------------------------------------------------------ bounds
MaxPathLen == 3
MaxItems == 2
MaxPages == 2
MaxRounds == 4
MaxVideos == 2

\* ------------------------------------------------------------- value sets
\* Characters of a URL path. "channel" and "user" stand for those words.
Symbols == {"/", "@", "channel", "user", "x"}

BSeq(S, n) == UNION {[1..k -> S] : k \in 0..n}

ChannelIds == {<<"UC1">>, <<"UC2">>}
PlaylistIds == {<<"UU1">>}
VideoIds == {"v1", "v2"}

None == <<>>
Some(x) == <<x>>
Option(S) == {None} \cup {Some(x) : x \in S}

\* Result<T, Box<dyn Error>>
Ok(v) == [ok |-> TRUE, val |-> v, err |-> ""]
Err(e) == [ok |-> FALSE, val |-> <<>>, err |-> e]

\* The error values the code produces.
ParseError == "url::ParseError"
InvalidPath == "Invalid YouTube channel URL path."
UnsupportedFormat == "Unsupported YouTube channel URL format."
HandleNotFound == "Could not find a channel ID for handle"
UsernameNotFound == "Could not find a channel ID for username"
UploadsNotFound == "Could not find uploads playlist for the channel."
SendError == "reqwest::Error(send)"
DecodeError == "reqwest::Error(decode)"
JoinError == "tokio::task::JoinError"

\* ---------------------------------------------------------------- state
VARIABLES
    channel_url,          \* args.channel_url: parse outcome and URL path
    playlist,             \* upstream: the pages of the uploads playlist
    endless,              \* upstream: every page carries a token
    fs0,                  \* the output directory as the run found it
    pc,                   \* position of main
    api_log,              \* requests sent to the YouTube API, in order
    last_resp,            \* the response to the latest API request
    ret,                  \* the latest return value of a resolution function
    channel_id,           \* main: Option<String>
    uploads_playlist_id,  \* main: Option<String>
    video_ids,            \* main: Option<Vec<String>>
    acc,                  \* get_all_video_ids: local video_ids
    page_token,           \* get_all_video_ids: local page_token
    pages,                \* page responses decoded by get_all_video_ids
    idx,                  \* main: position in the spawn loop / the join loop
    tpc,                  \* position of each spawned task
    tstatus,              \* the status of the image response each task got
    tres,                 \* how each task's download_thumbnail call ended
    handle,               \* what each task's JoinHandle yields
    img_reqs,             \* image requests sent, per task
    fs,                   \* the output directory: file V.jpg, per video id V
    created,              \* the files File::create opened in this run
    result                \* what main returned

resolution == <<channel_url, playlist, endless, fs0, api_log, last_resp, ret, channel_id,
                uploads_playlist_id, video_ids, acc, page_token, pages>>
fetching == <<idx, tpc, tstatus, tres, handle, img_reqs, fs, created>>
vars == <<resolution, fetching, pc, result>>

\* ------------------------------------------------- get_channel_id_from_url
\* str::split('/')
RECURSIVE Split(_)
Split(s) ==
    IF s = <<>> THEN << <<>> >>
    ELSE LET rest == Split(Tail(s)) IN
         IF Head(s) = "/" THEN << <<>> >> \o rest
         ELSE << <<Head(s)>> \o Head(rest) >> \o Tail(rest)

\* url_path.split('/').filter(|s| !s.is_empty()).collect()
path_parts(url_path) == SelectSeq(Split(url_path), LAMBDA p : p # <<>>)

\* first_part.starts_with('@')
starts_with_at(first_part) == Head(first_part) = "@"

\* &first_part[1..]
handle_of(first_part) == Tail(first_part)

\* A slip of identifier: the first segment instead of the second.
identifier_first(parts) == parts[1]

\* let type_part = path_parts[0]; let identifier = path_parts[1];
type_part(parts) == parts[1]
identifier(parts) == parts[2]

\* A slip of is_user: a plain else after the "channel" test.
is_user_else(t) == TRUE

\* type_part == "channel", type_part == "user"
is_channel(t) == t = <<"channel">>
is_user(t) == t = <<"user">>

\* The synchronous part of get_channel_id_from_url: what the function does
\* before its first await. kind "return" carries the value returned at once,
\* kind "search" / "forUsername" the argument of the request to send.
\* url.parsed is whether Url::parse succeeded, url.path what path() gave.
Dispatch(url) ==
    IF ~url.parsed THEN [kind |-> "return", arg |-> <<>>, ret |-> Err(ParseError)]
    ELSE LET parts == path_parts(url.path) IN
         IF parts = <<>>
         THEN [kind |-> "return", arg |-> <<>>, ret |-> Err(InvalidPath)]
         ELSE IF starts_with_at(parts[1])
         THEN [kind |-> "search", arg |-> handle_of(parts[1]), ret |-> Err("")]
         ELSE IF Len(parts) >= 2 /\ is_channel(type_part(parts))
         THEN [kind |-> "return", arg |-> <<>>, ret |-> Ok(identifier(parts))]
         ELSE IF Len(parts) >= 2 /\ is_user(type_part(parts))
         THEN [kind |-> "forUsername", arg |-> identifier(parts), ret |-> Err("")]
         ELSE [kind |-> "return", arg |-> <<>>, ret |-> Err(UnsupportedFormat)]

\* A slip of FirstSearchChannelId: the last result instead of the first.
LastSearchChannelId(items) ==
    IF items = <<>> THEN Err(HandleNotFound)
    ELSE Ok(items[Len(items)].id.channel_id)

\* .items.into_iter().next().map(|item| item.id.channel_id).ok_or_else(..)
FirstSearchChannelId(items) ==
    IF items = <<>> THEN Err(HandleNotFound) ELSE Ok(items[1].id.channel_id)

\* A slip of FirstChannelItemId: find_map, the first item that has an id.
FirstChannelItemWithId(items) ==
    LET with_id == SelectSeq(items, LAMBDA it : it.id # None) IN
    IF with_id = <<>> THEN Err(UsernameNotFound) ELSE Ok(with_id[1].id[1])

\* .items.into_iter().next().and_then(|item| item.id).ok_or_else(..)
FirstChannelItemId(items) ==
    IF items = <<>> \/ items[1].id = None
    THEN Err(UsernameNotFound)
    ELSE Ok(items[1].id[1])

\* ------------------------------------------------ get_uploads_playlist_id
\* A slip of FirstUploads: the last item instead of the first.
LastUploads(items) ==
    IF items # <<>> /\ items[Len(items)].content_details # None
    THEN Ok(items[Len(items)].content_details[1])
    ELSE Err(UploadsNotFound)

\* lines 191-196: the uploads playlist of the first item, if it has one.
FirstUploads(items) ==
    IF items # <<>> /\ items[1].content_details # None
    THEN Ok(items[1].content_details[1])
    ELSE Err(UploadsNotFound)

\* ------------------------------------------------------ get_all_video_ids
\* The playlistItems URL: the pageToken parameter is appended only for Some.
PlaylistItemsRequest(playlist_id, token) ==
    [kind |-> "playlistItems", arg |-> playlist_id, token |-> token]

\* A slip of PushAll: the page's ids put in front of the ids collected.
PushAllFront(ids, items) ==
    [j \in 1..Len(items) |-> items[j].content_details.video_id] \o ids

\* for item in response.items { video_ids.push(item.content_details.video_id) }
PushAll(ids, items) ==
    ids \o [j \in 1..Len(items) |-> items[j].content_details.video_id]

\* ------------------------------------------------------------- upstream
\* client.get(..).send().await?.json::<T>().await? : the request fails in
\* transport, or the body does not decode as T, or T is decoded.
\* SearchResultItem { id: SearchResultId { channel_id } }, lines 34-43.
SearchItem(c) == [id |-> [channel_id |-> c]]
SearchItems == {SearchItem(c) : c \in ChannelIds}
\* PlaylistItem { content_details: VideoContentDetails { video_id } },
\* lines 83-93.
PlaylistItem(v) == [content_details |-> [video_id |-> v]]

ChannelItems == [id : Option(ChannelIds), content_details : Option(PlaylistIds)]

Failures == {[status |-> s, items |-> <<>>, token |-> None] :
                s \in {"send_err", "decode_err"}}

SearchResponses ==
    Failures \cup {[status |-> "ok", items |-> it, token |-> None] :
                      it \in BSeq(SearchItems, MaxItems)}

ChannelResponses ==
    Failures \cup {[status |-> "ok", items |-> it, token |-> None] :
                      it \in BSeq(ChannelItems, MaxItems)}

\* The upstream serves the uploads playlist page by page: a request without
\* pageToken gets page 1, a request with the token of page k gets page k+1.
\* The token of page k is k; the last page carries none. An upstream that
\* breaks this contract (endless) puts a token on every page and serves
\* empty pages after the last one.
PageOf(token) == IF token = None THEN 1 ELSE token[1] + 1
Page(k) == [status |-> "ok",
            items |-> IF k <= Len(playlist)
                      THEN [j \in 1..Len(playlist[k]) |->
                               PlaylistItem(playlist[k][j])]
                      ELSE <<>>,
            token |-> IF endless \/ k < Len(playlist) THEN Some(k) ELSE None]
PageResponses(req) == Failures \cup {Page(PageOf(req.token))}

ErrorOf(resp) == IF resp.status = "send_err" THEN SendError ELSE DecodeError

\* A slip of Propagate: the error is reported and main goes on.
PropagateIgnore(r, next) == next

\* The `?` of main on a resolution function's result: the next position.
Propagate(r, next) == IF r.ok THEN next ELSE "done"

Running == [state |-> "running", err |-> ""]
Returned(r) == IF r.ok THEN [state |-> "ok", err |-> ""]
               ELSE [state |-> "err", err |-> r.err]

Tag(fn, r) == [fn |-> fn, ok |-> r.ok, val |-> r.val, err |-> r.err]
NoReturn == Tag("", Err(""))
NoResponse == [status |-> "none", items |-> <<>>, token |-> None]

\* ------------------------------------------------------------ output files
BodyLen == 2
\* The image bytes the image host serves for a video id.
Body(v) == [k \in 1..BodyLen |-> <<v, k>>]
\* The content of a file that is in the output directory before the run.
OldData == [k \in 1..(BodyLen + 1) |-> <<"old", k>>]

Absent == [exists |-> FALSE, data |-> <<>>]
File(d) == [exists |-> TRUE, data |-> d]

Tasks == 1..MaxVideos

\* -------------------------------------------------------- initial states
\* Before the fetch stage: no task, and an output directory that is empty
\* or holds the files V.jpg an earlier run left.
NothingFetched ==
    /\ idx = 1
    /\ tpc = [i \in Tasks |-> "unspawned"]
    /\ tstatus = [i \in Tasks |-> "none"]
    /\ tres = [i \in Tasks |-> "none"]
    /\ handle = [i \in Tasks |-> "pending"]
    /\ img_reqs = [i \in Tasks |-> 0]
    /\ fs0 \in {[v \in VideoIds |-> f] : f \in {Absent, File(OldData)}}
    /\ fs = fs0
    /\ created = {}
    /\ result = Running

Start(urls, playlists) ==
    /\ channel_url \in urls
    /\ playlist \in playlists
    /\ endless = FALSE
    /\ pc = "resolve"
    /\ api_log = <<>>
    /\ last_resp = NoResponse
    /\ ret = NoReturn
    /\ channel_id = None
    /\ uploads_playlist_id = None
    /\ video_ids = None
    /\ acc = <<>>
    /\ page_token = None
    /\ pages = <<>>
    /\ NothingFetched

Url(p) == [parsed |-> TRUE, path |-> p]
NotAUrl == [parsed |-> FALSE, path |-> <<>>]

\* Every reference: a string that does not parse as a URL, or a URL whose
\* path is "/" followed by at most MaxPathLen characters.
AllUrls == {NotAUrl} \cup {Url(<<"/">> \o p) : p \in BSeq(Symbols, MaxPathLen)}

\* One reference of each shape, for the runs of the whole program.
RunUrls == {NotAUrl,
            Url(<<"/">>),
            Url(<<"/", "@", "x">>),
            Url(<<"/", "channel", "/", "x">>),
            Url(<<"/", "user", "/", "x">>),
            Url(<<"/", "x">>)}

\* --------------------------------------------- main: resolution stages
\* main line 275, get_channel_id_from_url up to its first await or return.
ResolveChannelId ==
    /\ pc = "resolve"
    /\ LET d == Dispatch(channel_url) IN
       IF d.kind = "return"
       THEN /\ ret' = Tag("get_channel_id_from_url", d.ret)
            /\ channel_id' = IF d.ret.ok THEN Some(d.ret.val) ELSE None
            /\ pc' = Propagate(d.ret, "uploads")
            /\ result' = IF d.ret.ok THEN result ELSE Returned(d.ret)
            /\ UNCHANGED api_log
       ELSE /\ api_log' = Append(api_log,
                            [kind |-> d.kind, arg |-> d.arg, token |-> None])
            /\ pc' = IF d.kind = "search" THEN "search_wait" ELSE "user_wait"
            /\ UNCHANGED <<ret, channel_id, result>>
    /\ UNCHANGED <<channel_url, playlist, endless, fs0, last_resp, uploads_playlist_id, video_ids, acc,
                   page_token, pages, fetching>>

\* The end of a resolution function that awaited one response: its return
\* value r, the assignment of main and main's `?`.
ChannelIdReturns(resp, r) ==
    /\ pc' = Propagate(r, "uploads")
    /\ last_resp' = resp
    /\ ret' = Tag("get_channel_id_from_url", r)
    /\ channel_id' = IF r.ok THEN Some(r.val) ELSE None
    /\ result' = IF r.ok THEN result ELSE Returned(r)
    /\ UNCHANGED <<channel_url, playlist, endless, fs0, api_log, uploads_playlist_id, video_ids, acc,
                   page_token, pages, fetching>>

\* lines 119-130: the search response arrives.
SearchResponse ==
    /\ pc = "search_wait"
    /\ \E resp \in SearchResponses :
          ChannelIdReturns(resp, IF resp.status = "ok"
                                 THEN FirstSearchChannelId(resp.items)
                                 ELSE Err(ErrorOf(resp)))

\* lines 154-167: the forUsername response arrives.
UsernameResponse ==
    /\ pc = "user_wait"
    /\ \E resp \in ChannelResponses :
          ChannelIdReturns(resp, IF resp.status = "ok"
                                 THEN FirstChannelItemId(resp.items)
                                 ELSE Err(ErrorOf(resp)))

\* main line 279, get_uploads_playlist_id lines 180-187: the request is sent.
UploadsRequest ==
    /\ pc = "uploads"
    /\ api_log' = Append(api_log,
                    [kind |-> "channels", arg |-> channel_id[1], token |-> None])
    /\ pc' = "uploads_wait"
    /\ UNCHANGED <<channel_url, playlist, endless, fs0, last_resp, ret, channel_id, uploads_playlist_id,
                   video_ids, acc, page_token, pages, fetching, result>>

\* lines 188-196 and main's `?`.
UploadsResponse ==
    /\ pc = "uploads_wait"
    /\ \E resp \in ChannelResponses :
          LET r == IF resp.status = "ok" THEN FirstUploads(resp.items)
                   ELSE Err(ErrorOf(resp)) IN
          /\ pc' = Propagate(r, "page_send")
          /\ last_resp' = resp
          /\ ret' = Tag("get_uploads_playlist_id", r)
          /\ uploads_playlist_id' = IF r.ok THEN Some(r.val) ELSE None
          /\ result' = IF r.ok THEN result ELSE Returned(r)
    /\ UNCHANGED <<channel_url, playlist, endless, fs0, api_log, channel_id, video_ids, acc,
                   page_token, pages, fetching>>

\* main line 283, get_all_video_ids lines 208-218: one page is requested.
PageRequest ==
    /\ pc = "page_send"
    /\ endless => Len(pages) < MaxRounds
    /\ api_log' = Append(api_log,
                    PlaylistItemsRequest(uploads_playlist_id[1], page_token))
    /\ pc' = "page_wait"
    /\ UNCHANGED <<channel_url, playlist, endless, fs0, last_resp, ret, channel_id, uploads_playlist_id,
                   video_ids, acc, page_token, pages, fetching, result>>

\* A slip of PageStep: the loop is left after the first page.
PageStepFirstOnly(resp) == IF resp.status # "ok" THEN "err" ELSE "last"

\* A slip of PageStep: the test of the token is inverted.
PageStepInverted(resp) ==
    IF resp.status # "ok" THEN "err"
    ELSE IF resp.token = None THEN "more" ELSE "last"

\* What get_all_video_ids does with a page: "err" returns the error, "more"
\* goes round the loop, "last" breaks and returns the ids.
PageStep(resp) ==
    IF resp.status # "ok" THEN "err"
    ELSE IF resp.token = None THEN "last" ELSE "more"

\* A slip of EnumerationResult: a failed page ends the loop like a last
\* page, and the ids collected so far are returned.
EnumerationResultPartial(resp, ids) == Ok(ids)

\* The value get_all_video_ids returns when it stops on page resp.
EnumerationResult(resp, ids) ==
    IF resp.status # "ok" THEN Err(ErrorOf(resp)) ELSE Ok(ids)

\* lines 218-230 and main's `?`.
PageResponse ==
    /\ pc = "page_wait"
    /\ \E resp \in PageResponses(api_log[Len(api_log)]) :
          LET step == PageStep(resp)
              ids == IF resp.status = "ok" THEN PushAll(acc, resp.items) ELSE acc
              r == EnumerationResult(resp, ids) IN
          /\ pc' = IF step = "more" THEN "page_send" ELSE Propagate(r, "spawn")
          /\ last_resp' = resp
          /\ acc' = ids
          /\ pages' = IF resp.status = "ok" THEN Append(pages, resp) ELSE pages
          /\ page_token' = IF resp.status = "ok" THEN resp.token ELSE page_token
          /\ IF step = "more"
             THEN UNCHANGED <<ret, video_ids, result>>
             ELSE /\ ret' = Tag("get_all_video_ids", r)
                  /\ video_ids' = IF r.ok THEN Some(r.val) ELSE None
                  /\ result' = IF r.ok THEN result ELSE Returned(r)
    /\ UNCHANGED <<channel_url, playlist, endless, fs0, api_log, channel_id, uploads_playlist_id,
                   fetching>>

\* ------------------------------------------------- main: the fetch stage
NumVideos == IF video_ids = None THEN 0 ELSE Len(video_ids[1])
VideoOf(i) == video_ids[1][i]

\* lines 288-299: tokio::spawn of the task of the next video id.
SpawnTask ==
    /\ pc = "spawn"
    /\ idx <= NumVideos
    /\ tpc' = [tpc EXCEPT ![idx] = "send"]
    /\ idx' = idx + 1
    /\ UNCHANGED <<resolution, tstatus, tres, handle, img_reqs, fs, created,
                   pc, result>>

\* line 299 to line 302: the spawn loop ends, the join loop starts.
SpawnDone ==
    /\ pc = "spawn"
    /\ idx > NumVideos
    /\ pc' = "join"
    /\ idx' = 1
    /\ UNCHANGED <<resolution, tpc, tstatus, tres, handle, img_reqs, fs,
                   created, result>>

\* A slip of SpawnedClosure: the task's handle never yields a value.
SpawnedClosureNever(o) == "pending"

\* A slip of SpawnedClosure: the result is unwrapped, so that a task whose
\* download failed unwinds too.
SpawnedClosureUnwrap(o) ==
    IF o \in {"written", "skipped"} THEN "ok" ELSE "join_error"

\* lines 293-297: what the JoinHandle yields once download_thumbnail ended
\* with outcome o. An Err is printed and swallowed; only a task that
\* unwound yields a JoinError.
SpawnedClosure(o) == IF o = "panicked" THEN "join_error" ELSE "ok"

\* The task ends. Its last statement prints a line (println! line 248,
\* eprintln! lines 252 or 295); the macro panics when the stream cannot be
\* written, and the task unwinds instead of returning.
TaskEnds(i, o) ==
    \E end \in {o, "panicked"} :
        /\ tpc' = [tpc EXCEPT ![i] = "done"]
        /\ tres' = [tres EXCEPT ![i] = end]
        /\ handle' = [handle EXCEPT ![i] = SpawnedClosure(end)]

\* download_thumbnail lines 240-241: the image request is sent.
TaskSend(i) ==
    /\ tpc[i] = "send"
    /\ img_reqs' = [img_reqs EXCEPT ![i] = @ + 1]
    /\ tpc' = [tpc EXCEPT ![i] = "status"]
    /\ UNCHANGED <<resolution, idx, tstatus, tres, handle, fs, created, pc,
                   result>>

\* A slip of OnStatus: the test of the status is inverted.
OnStatusInverted(st) ==
    CASE st = "err" -> "send_err"
      [] st = "success" -> "skipped"
      [] OTHER -> "create"

\* A slip of OnStatus: the status is not tested, every response is saved.
OnStatusUnchecked(st) == IF st = "err" THEN "send_err" ELSE "create"

\* The branch download_thumbnail takes on the outcome of send(): lines 241,
\* 243 and 249.
OnStatus(st) ==
    CASE st = "err" -> "send_err"
      [] st = "success" -> "create"
      [] OTHER -> "skipped"

\* lines 241-243, 249-259: send() fails, or the response status arrives.
TaskResponse(i) ==
    /\ tpc[i] = "status"
    /\ \E st \in {"err", "success", "non_success"} :
          /\ tstatus' = [tstatus EXCEPT ![i] = st]
          /\ IF OnStatus(st) = "create"
             THEN /\ tpc' = [tpc EXCEPT ![i] = "create"]
                  /\ UNCHANGED <<tres, handle>>
             ELSE TaskEnds(i, OnStatus(st))
    /\ UNCHANGED <<resolution, idx, img_reqs, fs, created, pc, result>>

\* A slip of file_path: one file name for every video.
file_path_fixed(video_id) == "v1"

\* line 244: the file V.jpg of the output directory, named by its V.
file_path(video_id) == video_id

\* A slip of Create: the file is opened for writing without truncation.
CreateKeep(f) == File(f.data)

\* line 245: File::create makes the file, or empties the one that exists.
Create(f) == File(<<>>)

\* lines 244-245: File::create opens V.jpg, truncating it, or fails.
TaskCreate(i) ==
    /\ tpc[i] = "create"
    /\ \/ /\ fs' = [fs EXCEPT ![file_path(VideoOf(i))] = Create(@)]
          /\ created' = created \cup {file_path(VideoOf(i))}
          /\ tpc' = [tpc EXCEPT ![i] = "body"]
          /\ UNCHANGED <<tres, handle>>
       \/ /\ TaskEnds(i, "create_err")
          /\ UNCHANGED <<fs, created>>
    /\ UNCHANGED <<resolution, idx, tstatus, img_reqs, pc, result>>

\* line 246: response.bytes() reads the whole body, or fails.
TaskBody(i) ==
    /\ tpc[i] = "body"
    /\ \/ /\ tpc' = [tpc EXCEPT ![i] = "write"]
          /\ UNCHANGED <<tres, handle>>
       \/ TaskEnds(i, "body_err")
    /\ UNCHANGED <<resolution, idx, tstatus, img_reqs, fs, created, pc, result>>

\* The file after n bytes of b were written from offset 0 of a new handle.
WriteAt0(f, b, n) ==
    File(SubSeq(b, 1, n) \o SubSeq(f.data, n + 1, Len(f.data)))

\* lines 247-248: write_all writes the body, or fails after a part of it.
TaskWrite(i) ==
    /\ tpc[i] = "write"
    /\ LET v == VideoOf(i) IN
       \/ /\ fs' = [fs EXCEPT ![file_path(v)] = WriteAt0(@, Body(v), BodyLen)]
          /\ TaskEnds(i, "written")
       \/ \E n \in 0..(BodyLen - 1) :
             /\ fs' = [fs EXCEPT ![file_path(v)] = WriteAt0(@, Body(v), n)]
             /\ TaskEnds(i, "write_err")
    /\ UNCHANGED <<resolution, idx, tstatus, img_reqs, created, pc, result>>

\* What `task.await?` does with the JoinHandle's value: lines 302-304.
JoinStep(h) == IF h = "join_error" THEN "return_err" ELSE "next"

\* lines 302-304: main awaits the next JoinHandle.
JoinTask ==
    /\ pc = "join"
    /\ idx <= NumVideos
    /\ handle[idx] # "pending"
    /\ IF JoinStep(handle[idx]) = "return_err"
       THEN /\ pc' = "done"
            /\ result' = Returned(Err(JoinError))
            /\ UNCHANGED idx
       ELSE /\ idx' = idx + 1
            /\ UNCHANGED <<pc, result>>
    /\ UNCHANGED <<resolution, tpc, tstatus, tres, handle, img_reqs, fs, created>>

\* lines 306-307: every handle was awaited; main returns Ok(()).
MainReturnsOk ==
    /\ pc = "join"
    /\ idx > NumVideos
    /\ pc' = "done"
    /\ result' = Returned(Ok(<<>>))
    /\ UNCHANGED <<resolution, fetching>>

\* #[tokio::main], line 262: once main has returned the runtime is dropped
\* and a task that has not finished is dropped at its await.
RuntimeShutdown(i) ==
    /\ pc = "done"
    /\ tpc[i] \notin {"unspawned", "done"}
    /\ tpc' = [tpc EXCEPT ![i] = "done"]
    /\ tres' = [tres EXCEPT ![i] = "cancelled"]
    /\ UNCHANGED <<resolution, idx, tstatus, handle, img_reqs, fs, created, pc,
                   result>>

\* ------------------------------------------------------- specifications
RECURSIVE Concat(_)
Concat(ss) == IF ss = <<>> THEN <<>> ELSE Head(ss) \o Concat(Tail(ss))

\* Every uploads playlist of 1..MaxPages pages and at most MaxVideos videos.
AllPlaylists ==
    {p \in BSeq(BSeq(VideoIds, MaxVideos), MaxPages) :
        Len(p) >= 1 /\ Len(Concat(p)) <= MaxVideos}

\* The playlists of the runs of the whole program: two pages, one page with
\* the same video twice, one empty page.
RunPlaylists == { << <<"v1">>, <<"v2">> >>, << <<"v1", "v1">> >>, << <<>> >> }

Resolver == ResolveChannelId \/ SearchResponse \/ UsernameResponse

Enumerator == UploadsRequest \/ UploadsResponse \/ PageRequest \/ PageResponse

FetchTask(i) ==
    \/ TaskSend(i) \/ TaskResponse(i) \/ TaskCreate(i)
    \/ TaskBody(i) \/ TaskWrite(i) \/ RuntimeShutdown(i)

Fetcher == \E i \in Tasks : FetchTask(i)

Orchestrator == SpawnTask \/ SpawnDone \/ JoinTask \/ MainReturnsOk

\* The whole program.
Init == Start(RunUrls, RunPlaylists)
Next == Resolver \/ Enumerator \/ Orchestrator \/ Fetcher
Spec == Init /\ [][Next]_vars

\* get_channel_id_from_url alone, on every reference.
InitResolver == Start(AllUrls, {<< <<>> >>})
NextResolver == Resolver
SpecResolver == InitResolver /\ [][NextResolver]_vars

ChannelUrlX == Url(<<"/", "channel", "/", "x">>)
ChannelsRequestX == [kind |-> "channels", arg |-> <<"x">>, token |-> None]

\* get_uploads_playlist_id and get_all_video_ids, on every playlist: main at
\* line 278, after get_channel_id_from_url returned the id of /channel/x.
InitEnumerator ==
    /\ channel_url = ChannelUrlX
    /\ playlist \in AllPlaylists
    /\ endless = FALSE
    /\ pc = "uploads"
    /\ api_log = <<>>
    /\ last_resp = NoResponse
    /\ ret = Tag("get_channel_id_from_url", Ok(<<"x">>))
    /\ channel_id = Some(<<"x">>)
    /\ uploads_playlist_id = None
    /\ video_ids = None
    /\ acc = <<>>
    /\ page_token = None
    /\ pages = <<>>
    /\ NothingFetched
NextEnumerator == Enumerator
SpecEnumerator == InitEnumerator /\ [][NextEnumerator]_vars

\* The fetch stage, on every sequence of video ids: main at line 286, after
\* get_all_video_ids returned the ids of a playlist of one page.
InitFetch ==
    /\ channel_url = ChannelUrlX
    /\ playlist \in {p \in AllPlaylists : Len(p) = 1}
    /\ endless = FALSE
    /\ pc = "spawn"
    /\ api_log = <<ChannelsRequestX,
                   PlaylistItemsRequest(<<"UU1">>, None)>>
    /\ last_resp = Page(1)
    /\ ret = Tag("get_all_video_ids", Ok(playlist[1]))
    /\ channel_id = Some(<<"x">>)
    /\ uploads_playlist_id = Some(<<"UU1">>)
    /\ video_ids = Some(playlist[1])
    /\ acc = playlist[1]
    /\ page_token = None
    /\ pages = <<Page(1)>>
    /\ NothingFetched
NextFetch == Orchestrator \/ Fetcher
SpecFetch == InitFetch /\ [][NextFetch]_vars

\* Enumeration and fetch stage under a fair schedule: main at line 278, after
\* get_channel_id_from_url returned the id of /channel/x, on an upstream that
\* keeps the pagination contract or sends a token with every page.
InitLive ==
    /\ channel_url = ChannelUrlX
    /\ playlist \in RunPlaylists
    /\ endless \in BOOLEAN
    /\ pc = "uploads"
    /\ api_log = <<>>
    /\ last_resp = NoResponse
    /\ ret = Tag("get_channel_id_from_url", Ok(<<"x">>))
    /\ channel_id = Some(<<"x">>)
    /\ uploads_playlist_id = None
    /\ video_ids = None
    /\ acc = <<>>
    /\ page_token = None
    /\ pages = <<>>
    /\ NothingFetched
NextLive == Enumerator \/ Orchestrator \/ Fetcher

\* Every step moves main or a task, so these positions change in every step.
positions == <<pc, idx, tpc>>

\* main is the future block_on drives and each task is scheduled by the
\* runtime, so each takes its next step when it can; a request that was sent
\* and a write that was started complete.
Fairness ==
    /\ WF_positions(Enumerator \/ Orchestrator)
    /\ \A i \in Tasks : WF_positions(FetchTask(i))
SpecLive == InitLive /\ [][NextLive]_vars /\ Fairness

\* ================================================================ claims
Returned_get_channel_id == ret.fn = "get_channel_id_from_url"
Parts == path_parts(channel_url.path)

\* The three shapes of a reference.
HandleShaped == channel_url.parsed /\ Parts # <<>> /\ Head(Parts[1]) = "@"
ChannelShaped ==
    /\ channel_url.parsed /\ ~HandleShaped
    /\ Len(Parts) >= 2 /\ Parts[1] = <<"channel">>
UserShaped ==
    /\ channel_url.parsed /\ ~HandleShaped
    /\ Len(Parts) >= 2 /\ Parts[1] = <<"user">>
Unshaped == ~HandleShaped /\ ~ChannelShaped /\ ~UserShaped

\* The result of a resolution function whose request failed.
Upstream(r) == r = Err(ErrorOf(last_resp))
Untagged(r) == [ok |-> r.ok, val |-> r.val, err |-> r.err]
PageRequests == SelectSeq(api_log, LAMBDA q : q.kind = "playlistItems")

\* C1: when get_all_video_ids returns Ok on a playlist of N pages, it has
\* sent exactly N playlistItems requests, request k for page k (the first
\* without token, request k+1 with the token of page k), and the value
\* returned is the concatenation of the pages' ids in page order, so its
\* length is the sum of the pages' item counts.
C1_Pagination ==
    (ret.fn = "get_all_video_ids" /\ ret.ok) =>
        /\ Len(PageRequests) = Len(playlist)
        /\ \A k \in 1..Len(PageRequests) :
              PageRequests[k] =
                  PlaylistItemsRequest(uploads_playlist_id[1],
                                       IF k = 1 THEN None ELSE Some(k - 1))
        /\ pages = [k \in 1..Len(playlist) |-> Page(k)]
        /\ ret.val = Concat(playlist)
        /\ video_ids = Some(Concat(playlist))

\* C1 witness: two pages, each with a video, were enumerated.
C1_Witness ==
    /\ ret.fn = "get_all_video_ids" /\ ret.ok
    /\ Len(playlist) = 2 /\ playlist[1] # <<>> /\ playlist[2] # <<>>
    /\ playlist[1] # playlist[2]

\* A page request failed (in transport or in decoding).
PageFailed ==
    /\ api_log # <<>>
    /\ api_log[Len(api_log)].kind = "playlistItems"
    /\ last_resp.status \in {"send_err", "decode_err"}

\* C6: when a page fails, get_all_video_ids returns the error and none of
\* the ids collected from earlier pages, main ends with that error, the
\* failed page was requested once and no page is requested after it.
C6_PageFailureAborts ==
    PageFailed =>
        /\ ret = Tag("get_all_video_ids", Err(ErrorOf(last_resp)))
        /\ video_ids = None
        /\ pc = "done"
        /\ result = Returned(Err(ErrorOf(last_resp)))
        /\ Len(PageRequests) = Len(pages) + 1
        /\ \A j, k \in 1..Len(PageRequests) :
              j # k => PageRequests[j] # PageRequests[k]

\* C6 witness: the second page failed after the first gave a video id.
C6_Witness == PageFailed /\ Len(pages) = 1 /\ acc # <<>>

\* C7: for a handle-shaped reference /@X exactly one request is sent, the
\* search for X; the function returns the channel id of the first item of
\* the response, the handle-not-found error on a response without items,
\* and the request's error when the request failed.
C7_Handle ==
    (HandleShaped /\ pc # "resolve") =>
        /\ api_log = <<[kind |-> "search", arg |-> Tail(Parts[1]),
                        token |-> None]>>
        /\ Returned_get_channel_id =>
              /\ (last_resp.status = "ok" /\ last_resp.items # <<>>) =>
                     Untagged(ret) = Ok(last_resp.items[1].id.channel_id)
              /\ (last_resp.status = "ok" /\ last_resp.items = <<>>) =>
                     Untagged(ret) = Err(HandleNotFound)
              /\ last_resp.status # "ok" => Upstream(Untagged(ret))

\* C7 witness: a search response of two different channels was resolved.
C7_Witness ==
    /\ HandleShaped /\ Returned_get_channel_id /\ ret.ok
    /\ Len(last_resp.items) = 2 /\ last_resp.items[1] # last_resp.items[2]

\* C8: for a /channel/<id> reference the function returns <id>, the second
\* path segment, and no request is sent.
C8_Channel ==
    (ChannelShaped /\ pc # "resolve") =>
        /\ ret = Tag("get_channel_id_from_url", Ok(Parts[2]))
        /\ channel_id = Some(Parts[2])
        /\ api_log = <<>>

\* C8 witness: /channel/x was resolved.
C8_Witness ==
    /\ ChannelShaped /\ Returned_get_channel_id
    /\ Parts[2] # Parts[1]

\* The part of C9 that every response shares: one forUsername lookup.
C9_OneLookup ==
    api_log = <<[kind |-> "forUsername", arg |-> Parts[2], token |-> None]>>

\* C9 as stated: for a /user/<name> reference one lookup by username is
\* sent and the function returns the id of the first item of the response;
\* a response without items gives the username-not-found error.
C9_Original ==
    (UserShaped /\ pc # "resolve") =>
        /\ C9_OneLookup
        /\ (Returned_get_channel_id /\ last_resp.status = "ok") =>
              /\ last_resp.items # <<>> =>
                    (ret.ok /\ Some(ret.val) = last_resp.items[1].id)
              /\ last_resp.items = <<>> =>
                    Untagged(ret) = Err(UsernameNotFound)

\* C9 amended: one lookup by username is sent; the function returns the id
\* of the first item when that item has an id, and the username-not-found
\* error when the response has no item or its first item has no id.
C9_User ==
    (UserShaped /\ pc # "resolve") =>
        /\ C9_OneLookup
        /\ Returned_get_channel_id =>
              /\ (last_resp.status = "ok" /\ last_resp.items # <<>>
                    /\ last_resp.items[1].id # None) =>
                     Untagged(ret) = Ok(last_resp.items[1].id[1])
              /\ (last_resp.status = "ok"
                    /\ (last_resp.items = <<>> \/ last_resp.items[1].id = None)) =>
                     Untagged(ret) = Err(UsernameNotFound)
              /\ last_resp.status # "ok" => Upstream(Untagged(ret))

\* C9 witness: the first item has no id, the second has one.
C9_Witness ==
    /\ UserShaped /\ Returned_get_channel_id
    /\ Len(last_resp.items) = 2
    /\ last_resp.items[1].id = None /\ last_resp.items[2].id # None

\* C10 as stated, for the references that parse as a URL: a reference of
\* none of the three shapes fails with the unsupported-format error and no
\* request is sent.
C10_Original ==
    (channel_url.parsed /\ Unshaped /\ pc # "resolve") =>
        /\ ret = Tag("get_channel_id_from_url", Err(UnsupportedFormat))
        /\ api_log = <<>>

\* C10 amended: a reference of none of the three shapes fails and no request
\* is sent; the error is the unsupported-format error when the path has a
\* segment, the invalid-path error when the path has no segment, and the
\* URL parse error when the reference is not a URL.
C10_Unsupported ==
    (Unshaped /\ pc # "resolve") =>
        /\ api_log = <<>>
        /\ pc = "done"
        /\ channel_id = None
        /\ result = Returned(Untagged(ret))
        /\ ret = Tag("get_channel_id_from_url",
                     Err(IF ~channel_url.parsed THEN ParseError
                         ELSE IF Parts = <<>> THEN InvalidPath
                         ELSE UnsupportedFormat))

\* C10 witness: a two-segment path of no shape was rejected.
C10_Witness ==
    /\ Unshaped /\ Returned_get_channel_id
    /\ Len(Parts) = 2

Spawned == 1..NumVideos
FetchErrors == {"send_err", "create_err", "body_err", "write_err"}

\* main returned and every task ran download_thumbnail to an Ok(()).
BatchCompleteNoError ==
    /\ pc = "done" /\ video_ids # None
    /\ \A i \in Spawned : tres[i] \in {"written", "skipped"}

\* C2: when the batch is complete and no task met an error, the files
\* opened by the run are exactly the files V.jpg of the ids V whose image
\* request got a success status, each of them exists, no request was sent
\* twice, and main returned Ok.
C2_Concurrency ==
    BatchCompleteNoError =>
        /\ created = {VideoOf(i) : i \in {j \in Spawned : tstatus[j] = "success"}}
        /\ \A v \in created : fs[v].exists
        /\ \A i \in Spawned : tstatus[i] \in {"success", "non_success"}
        /\ result = Returned(Ok(<<>>))

\* C2 witness: of two different ids one was saved and one was skipped, and
\* the skipped one has no file.
C2_Witness ==
    /\ BatchCompleteNoError /\ NumVideos = 2
    /\ VideoOf(1) # VideoOf(2)
    /\ tres[1] = "skipped" /\ tres[2] = "written"
    /\ ~fs[VideoOf(1)].exists /\ fs[VideoOf(2)].exists

\* C3 as stated: main has not returned, with success or with an error,
\* while a spawned task is still running: when main is done, every spawned
\* task has run to its end.
C3_FanIn ==
    (pc = "done" /\ video_ids # None) =>
        \A i \in Spawned : tpc[i] = "done" /\ tres[i] # "cancelled"

\* C4: when the three resolution stages succeeded and every task ended in
\* one of success, skip on a non-success status, transport error or file
\* I/O error, main returns Ok.
C4_ExitStatus ==
    (/\ pc = "done" /\ video_ids # None
     /\ \A i \in Spawned : tres[i] \in {"written", "skipped"} \cup FetchErrors)
        => result = Returned(Ok(<<>>))

\* C4 witness: one task failed in transport, one in file I/O, main is done
\* after three resolution requests.
C4_Witness ==
    /\ pc = "done" /\ NumVideos = 2
    /\ tres[1] = "send_err" /\ tres[2] \in {"create_err", "write_err"}
    /\ Len(api_log) >= 3

\* A resolution function returned an error.
StageFailed == ret.fn # "" /\ ~ret.ok
Kinds == {api_log[k].kind : k \in 1..Len(api_log)}

\* C5: when one of the three resolution functions fails, main ends at once
\* with that error: no request of a later stage is sent, no task is
\* spawned, no image request is sent and no file is opened or changed.
C5_ResolutionAborts ==
    StageFailed =>
        /\ pc = "done"
        /\ result = Returned(Untagged(ret))
        /\ result.state = "err"
        /\ video_ids = None
        /\ ret.fn = "get_channel_id_from_url" =>
               Kinds \subseteq {"search", "forUsername"} /\ Len(api_log) <= 1
        /\ ret.fn = "get_uploads_playlist_id" =>
               /\ "playlistItems" \notin Kinds
               /\ api_log[Len(api_log)].kind = "channels"
        /\ ret.fn = "get_all_video_ids" => Len(PageRequests) = Len(pages) + 1
        /\ \A i \in Tasks : tpc[i] = "unspawned" /\ img_reqs[i] = 0
        /\ created = {}
        /\ \A v \in VideoIds : fs[v] \in {Absent, File(OldData)}

\* C5 witness: the second page failed after the first gave a video id.
C5_Witness ==
    /\ StageFailed /\ ret.fn = "get_all_video_ids"
    /\ acc # <<>> /\ Len(api_log) >= 4

ChannelsRequests == SelectSeq(api_log, LAMBDA q : q.kind = "channels")

\* get_uploads_playlist_id has returned and nothing was requested since.
Returned_get_uploads ==
    /\ ret.fn = "get_uploads_playlist_id"
    /\ api_log # <<>>
    /\ api_log[Len(api_log)].kind = "channels"

\* C11: get_uploads_playlist_id sends exactly one channel-details lookup,
\* for the channel id it was given; it returns the uploads playlist id of
\* the first item's content details, the uploads-not-found error when the
\* response has no item or its first item has no content details, and the
\* request's error when the request failed.
C11_Uploads ==
    /\ (/\ pc \notin {"resolve", "search_wait", "user_wait", "uploads"}
        /\ channel_id # None) =>
          ChannelsRequests = <<[kind |-> "channels", arg |-> channel_id[1],
                                token |-> None]>>
    /\ Returned_get_uploads =>
          /\ (/\ last_resp.status = "ok" /\ last_resp.items # <<>>
              /\ last_resp.items[1].content_details # None) =>
                 /\ Untagged(ret) = Ok(last_resp.items[1].content_details[1])
                 /\ uploads_playlist_id = last_resp.items[1].content_details
          /\ (/\ last_resp.status = "ok"
              /\ (\/ last_resp.items = <<>>
                  \/ last_resp.items[1].content_details = None)) =>
                 Untagged(ret) = Err(UploadsNotFound)
          /\ last_resp.status # "ok" => Upstream(Untagged(ret))

\* C11 witness: the first item has content details, the second has none.
C11_Witness ==
    /\ Returned_get_uploads /\ ret.ok
    /\ Len(last_resp.items) = 2
    /\ last_resp.items[2].content_details = None

\* C11 witness of the other case: the first item has no content details,
\* the second has.
C11_WitnessNotFound ==
    /\ Returned_get_uploads /\ ~ret.ok
    /\ Len(last_resp.items) = 2
    /\ last_resp.items[2].content_details # None

\* C12: a download_thumbnail call that got a success response for V and
\* whose file operations succeeded returns Ok, and at its return V.jpg holds
\* exactly the body served for V, whatever was in the directory before: no
\* byte of an older V.jpg is left.
C12_FetchSuccess ==
    [][\A i \in Tasks :
          (tres[i] = "none" /\ tres'[i] = "written") =>
              /\ tstatus[i] = "success"
              /\ handle'[i] = "ok"
              /\ fs'[VideoOf(i)] = File(Body(VideoOf(i)))]_vars

\* C12 witness: a task returned Ok over a file that an earlier run left.
C12_Witness ==
    \E i \in Spawned :
        /\ tres[i] = "written"
        /\ fs0[VideoOf(i)] = File(OldData)
        /\ fs[VideoOf(i)] = File(Body(VideoOf(i)))

\* C13: a download_thumbnail call that gets a non-success status returns Ok
\* without touching the output directory: neither sending the request nor
\* taking the response creates, truncates or modifies a file, and the call
\* ends there.
C13_FetchSkip ==
    [][\A i \in Tasks :
          /\ (tpc[i] = "send" /\ tpc'[i] # "send") =>
                 (fs' = fs /\ created' = created)
          /\ (tstatus[i] = "none" /\ tstatus'[i] = "non_success") =>
                 /\ fs' = fs /\ created' = created
                 /\ tpc'[i] = "done"
                 /\ tres'[i] \in {"skipped", "panicked"}
                 /\ tres'[i] = "skipped" => handle'[i] = "ok"]_vars

\* C13 witness: a task skipped a video whose file an earlier run left, and
\* the directory is as the run found it.
C13_Witness ==
    \E i \in Spawned :
        /\ tres[i] = "skipped"
        /\ fs0[VideoOf(i)] = File(OldData)
        /\ fs = fs0

\* The run is over: main returned and no task is left running.
RunOver == pc = "done" /\ \A i \in Spawned : tpc[i] = "done"

\* The files the run created or changed.
Touched == {v \in VideoIds : v \in created \/ fs[v] # fs0[v]}

\* C14: after a run in which no task panicked or was dropped, every file
\* V.jpg the run created or changed holds exactly the body served for V and
\* a task for V returned Ok after writing it; so a call that fails after its
\* File::create leaves no empty or partial file.
C14_FilesystemOutput ==
    (RunOver /\ \A i \in Spawned : tres[i] \notin {"panicked", "cancelled"}) =>
        \A v \in Touched :
            /\ fs[v] = File(Body(v))
            /\ \E i \in Spawned : VideoOf(i) = v /\ tres[i] = "written"

\* The tasks that hold the file f open for writing: File::create returned
\* and write_all has not.
Writers(f) ==
    {i \in Spawned : tpc[i] \in {"body", "write"} /\ file_path(VideoOf(i)) = f}

\* C15 as stated: in every state, whatever the sequence of video ids, no
\* file is held open for writing by two tasks.
C15_Original == \A f \in VideoIds : Cardinality(Writers(f)) <= 1

\* C15: a file is created or written only by a step of a task of the
\* file's own video id, and two tasks hold the same file open only when
\* their ids are equal; so no two tasks write the same file when the ids of
\* the sequence are pairwise distinct.
C15_Contention ==
    [][/\ \A f \in VideoIds :
             fs'[f] # fs[f] =>
                \E i \in Spawned :
                    /\ VideoOf(i) = f
                    /\ tpc[i] \in {"create", "write"} /\ tpc'[i] # tpc[i]
       /\ \A f \in VideoIds : \A i, j \in Writers(f) :
             VideoOf(i) = VideoOf(j)]_vars

\* C15 witness: the tasks of two different videos write at the same time.
C15_Witness ==
    /\ NumVideos = 2 /\ VideoOf(1) # VideoOf(2)
    /\ tpc[1] = "write" /\ tpc[2] = "write"

\* The task i is the only task of its video id.
OnlyTaskOfItsId(i) == \A j \in Spawned : VideoOf(j) = VideoOf(i) => j = i

\* C16: after a run in which tasks met transport or file errors but none
\* panicked, every task ran to its own outcome with one request, and the
\* file of a video that has one task depends on that task alone: it holds
\* the body when the task wrote it, and is as the run found it (no file
\* from this run) when the task was skipped or failed.
C16_Isolation ==
    (RunOver /\ \A i \in Spawned : tres[i] \notin {"panicked", "cancelled"}) =>
        \A i \in Spawned :
            /\ tres[i] \in {"written", "skipped"} \cup FetchErrors
            /\ img_reqs[i] = 1
            /\ OnlyTaskOfItsId(i) =>
                  fs[file_path(VideoOf(i))] =
                      IF tres[i] = "written" THEN File(Body(VideoOf(i)))
                      ELSE fs0[file_path(VideoOf(i))]

\* C17: the first playlistItems request carries no page token; request
\* k+1 exists only when response k was decoded and carried a token, and it
\* carries exactly that token; once a response without token was decoded
\* no further request is sent and the loop is left.
C17_TokenChaining ==
    /\ PageRequests # <<>> => PageRequests[1].token = None
    /\ Len(PageRequests) <= Len(pages) + 1
    /\ \A k \in 1..(Len(PageRequests) - 1) :
          /\ pages[k].token # None
          /\ PageRequests[k + 1].token = pages[k].token
    /\ (pages # <<>> /\ pages[Len(pages)].token = None) =>
          /\ Len(PageRequests) = Len(pages)
          /\ pc \notin {"page_send", "page_wait"}

\* C17 witness: a second request carried the token of the first response,
\* and its response, without token, ended the enumeration.
C17_Witness ==
    /\ Len(PageRequests) = 2 /\ Len(pages) = 2
    /\ PageRequests[2].token = pages[1].token
    /\ pages[2].token = None

\* C18: no request of the resolution stages is sent twice, no task sends
\* its image request twice, and when the run is over every element of the
\* enumerated sequence had exactly one image request.
C18_NoRetry ==
    /\ \A j, k \in 1..Len(api_log) : api_log[j] = api_log[k] => j = k
    /\ \A i \in Tasks : img_reqs[i] <= 1
    /\ \A i \in Tasks : i \notin Spawned => img_reqs[i] = 0
    /\ RunOver => \A i \in Spawned : img_reqs[i] = 1

\* The stage a request of the API belongs to.
StageOf(q) ==
    CASE q.kind \in {"search", "forUsername"} -> 1
      [] q.kind = "channels" -> 2
      [] q.kind = "playlistItems" -> 3

FetchStarted ==
    \/ pc \in {"spawn", "join"}
    \/ \E i \in Tasks : tpc[i] # "unspawned" \/ img_reqs[i] > 0

SpawnedTasks == {i \in Tasks : tpc[i] # "unspawned"}

\* C19: the requests of the API are sent in stage order; a channel-details
\* request is sent only once the channel id is known, a playlistItems
\* request only once the uploads playlist id is known; no task is spawned
\* and no image request is sent before the last page, the one without
\* token, was received and the whole sequence of ids was returned; and the
\* spawn loop spawns exactly one task per element of that sequence.
C19_StageOrdering ==
    /\ \A j, k \in 1..Len(api_log) :
          j < k => StageOf(api_log[j]) <= StageOf(api_log[k])
    /\ ChannelsRequests # <<>> => channel_id # None
    /\ PageRequests # <<>> =>
          (uploads_playlist_id # None /\ ChannelsRequests # <<>>)
    /\ FetchStarted =>
          /\ pages # <<>> /\ pages[Len(pages)].token = None
          /\ Len(pages) = Len(playlist)
          /\ video_ids = Some(Concat(playlist))
    /\ ~FetchStarted => SpawnedTasks = {}
    /\ pc = "spawn" => SpawnedTasks = 1..(idx - 1)
    /\ (pc = "join" \/ (pc = "done" /\ video_ids # None)) =>
          SpawnedTasks = Spawned

\* C19 witness: two pages were enumerated, then one task per id was spawned
\* and sent its request.
C19_Witness ==
    /\ pc = "done" /\ Len(pages) = 2 /\ NumVideos = 2
    /\ SpawnedTasks = {1, 2}
    /\ \A i \in Spawned : img_reqs[i] = 1

\* get_all_video_ids left its loop.
LoopLeft == ret.fn = "get_all_video_ids"

\* The enumeration is under way or over.
Enumerating == uploads_playlist_id # None

\* C20: the enumeration loop is left on a response without token or on a
\* failed page, and never otherwise; under a fair schedule a run on an
\* upstream that ends its token chain finishes, main returned and no task
\* left; on an upstream that sends a token with every page the fetch stage
\* is never reached, get_all_video_ids never returns Ok, and the loop goes
\* on until a page fails, up to any number of rounds.
C20_Termination ==
    /\ [](LoopLeft =>
             IF ret.ok
             THEN pages # <<>> /\ pages[Len(pages)].token = None
             ELSE PageFailed)
    /\ []((pages # <<>> /\ pages[Len(pages)].token = None) => LoopLeft)
    /\ (~endless) ~> RunOver
    /\ [](endless => (~FetchStarted /\ ~(LoopLeft /\ ret.ok)))
    /\ (endless /\ Enumerating) ~>
           ((LoopLeft /\ PageFailed) \/ Len(pages) = MaxRounds)

\* C20 witness: a run on two pages finished with both files written.
C20_Witness ==
    /\ ~endless /\ RunOver /\ result = Returned(Ok(<<>>))
    /\ Len(pages) = 2 /\ NumVideos = 2
    /\ \A i \in Spawned : tres[i] = "written"

\* C20 witness of the other case: the upstream sent a token with every
\* page and the loop is in its last round of the bound.
C20_WitnessEndless ==
    /\ endless /\ Len(pages) = MaxRounds /\ pc = "page_send"
    /\ page_token = Some(MaxRounds)

====
